---- MODULE Spec2Model ----
(***************************************************************************)
(* The versioned component-state store (BlobStorageStateStorage) and the   *)
(* concurrent refresh command (refresh_component_state) of dagster.        *)
(*                                                                         *)
(* Spec     the storage facade used by concurrent callers (threads or      *)
(*          processes sharing one base_dir and one run storage); every     *)
(*          filesystem or cursor-store access is one step.                 *)
(* SpecRun  one run of the refresh command on the store an earlier run     *)
(*          left: one event loop, one task per component; a task gives up  *)
(*          the loop only inside its awaited refresh.                      *)
(* SpecLoop the tasks of one run of two components, with every storage    *)
(*          access of a task's upload as one step of the event loop.       *)
(***************************************************************************)
EXTENDS Naturals, Sequences, FiniteSets, TLC

\* ------------------------------------------------------------------ values
Keys == {"a", "b", "c"}
KeyOrder == <<"a", "b", "c">>
\* key and version strings that hold the path separator
SlashKeys == {"a", "a/b"}
SlashVersions == {"c", "b/c"}
SortedKeys == <<"a", "a/b", "b", "c">>
Versions == {"v1", "v2"}
Bytes == {"x", "y"}
NoFile == "NoFile"          \* no file at a path
Truncated == "trunc"        \* a file whose write was cut short
Callers == {"t1", "t2"}
CallKeys == {"a", "b"}      \* the keys the callers of Spec pass
MaxCalls == 2               \* facade calls started in one behaviour of Spec

\* BlobStorageStateStorage.INFO_KEY and one unrelated cursor key of the run storage
\* a pointer-record key that another user of the cursor store has too
INFO_KEY_shared == "other_cursor"

\* INFO_KEY = "__latest_defs_state_info__"
INFO_KEY == "__latest_defs_state_info__"
OTHER_KEY == "other_cursor"
CursorKeys == {INFO_KEY, OTHER_KEY}
NoValue == <<>>             \* get_cursor_values has no value for the key
OtherValue == << <<"cursor", "c0">> >>
\* a value under INFO_KEY that is no serialized DefsStateInfo
Undecodable == << <<"garbage", "bytes">> >>

\* ------------------------------------------------------- the pointer record
\* DefsStateInfo.info_mapping: a function from the published keys to versions
EmptyMapping == [k \in {} |-> "v1"]
NoneInfo == [present |-> FALSE, info_mapping |-> EmptyMapping]
SomeInfo(m) == [present |-> TRUE, info_mapping |-> m]

ClassTag == <<"__class__", "DefsStateInfo">>

\* serialize_value: the class tag, then one (key, version) pair per entry
serialize_value(m) ==
    LET ks == SelectSeq(SortedKeys, LAMBDA k : k \in DOMAIN m)
    IN  <<ClassTag>> \o [i \in 1..Len(ks) |-> <<ks[i], m[ks[i]]>>]

\* deserialize_value(raw, DefsStateInfo): raises unless raw carries the class tag
CanDeserialize(raw) == Len(raw) >= 1 /\ raw[1] = ClassTag

deserialize_value(raw) ==
    LET idx == 2..Len(raw)
    IN  [k \in {raw[i][1] : i \in idx} |->
            raw[CHOOSE i \in idx : raw[i][1] = k][2]]

\* DefsStateInfo.add_version(current_info, key, version)
add_version(current, k, v) ==
    LET m == current.info_mapping
    IN  [x \in (DOMAIN m) \cup {k} |-> IF x = k THEN v ELSE m[x]]

\* ------------------------------------------------- the facade, step by step
\* a path that leaves the version out
_get_state_path_no_version(k, v) == <<k, "v1">>

\* the segments of a string operand of the path operator "/": the string
\* is split at the separator
Segments(s) ==
    CASE s = "a/b" -> <<"a", "b">>
      [] s = "b/c" -> <<"b", "c">>
      [] OTHER -> <<s>>

\* BlobStorageStateStorage._get_state_path: base_dir / key / version, as the
\* segments under base_dir
_get_state_path(k, v) == Segments(k) \o Segments(v)

\* remote_path.parent, and the directories mkdir(parents=True) makes for it
Parent(path) == SubSeq(path, 1, Len(path) - 1)
mkdir_parents(d, path) == d \cup {SubSeq(path, 1, i) : i \in 1..(Len(path) - 1)}

\* a write that keeps one version per key: the other files of the key's
\* directory are removed
write_bytes_one_version(bl, path, data) ==
    [p \in DOMAIN bl |->
        IF p = path THEN data ELSE IF p[1] = path[1] THEN NoFile ELSE bl[p]]

\* UPath.write_bytes: the file at path is created or overwritten
write_bytes(bl, path, data) == [bl EXCEPT ![path] = data]

\* a read that swallows the decoding error
get_latest_raises_never(cur) == FALSE

\* BlobStorageStateStorage.get_latest_defs_state_info on cursor values cur
get_latest_raises(cur) == cur[INFO_KEY] # NoValue /\ ~CanDeserialize(cur[INFO_KEY])

\* a read that answers an absent record with an empty DefsStateInfo
get_latest_defs_state_info_never_none(cur) ==
    [present |-> TRUE,
     info_mapping |-> IF cur[INFO_KEY] = NoValue
                      THEN [k \in {} |-> "v1"]
                      ELSE deserialize_value(cur[INFO_KEY])]

get_latest_defs_state_info(cur) ==
    IF cur[INFO_KEY] = NoValue
    THEN NoneInfo
    ELSE SomeInfo(deserialize_value(cur[INFO_KEY]))

\* DefsStateStorage.get_updated_defs_state_info
get_updated_defs_state_info(cur, k, v) ==
    add_version(get_latest_defs_state_info(cur), k, v)

\* a record built from nothing but the new entry
updated_info_fresh(cur, k, v) == add_version(NoneInfo, k, v)

\* a record that is read and written back without the new entry
updated_info_unchanged(cur, k, v) == get_latest_defs_state_info(cur).info_mapping

\* set_latest_version: self.get_updated_defs_state_info(key, version)
updated_info(cur, k, v) == get_updated_defs_state_info(cur, k, v)

\* a value that carries the class tag and no entry
set_latest_version_value_header_only(info) == <<ClassTag>>

\* set_latest_version's argument: {INFO_KEY: serialize_value(updated info)}
set_latest_version_value(info) == serialize_value(info)

\* run_storage.set_cursor_values: only the keys given are replaced
set_cursor_values(cur, k, raw) == [cur EXCEPT ![k] = raw]

\* mkdir without exist_ok
mkdir_exist_ok_false == FALSE

\* remote_path.parent.mkdir(parents=True, exist_ok=True)
mkdir_exist_ok == TRUE

\* a download that never writes the destination
download_steps_no_write == <<"dl_exists", "dl_read">>
\* an upload that publishes the pointer before it writes the blob
upload_steps_publish_first == <<"slv_read", "slv_write", "ul_mkdir", "ul_read", "ul_write">>
\* an upload that never writes the blob
upload_steps_no_write == <<"ul_mkdir", "ul_read", "slv_read", "slv_write">>

\* an upload that publishes the pointer between the source read and the blob write
upload_steps_publish_before_write == <<"ul_mkdir", "ul_read", "slv_read", "slv_write", "ul_write">>
\* an upload that writes the blob before it makes the directory
upload_steps_write_before_mkdir == <<"ul_read", "ul_write", "ul_mkdir", "slv_read", "slv_write">>

\* a read that stores a record when it has read one
get_latest_steps_store == <<"get", "slv_write">>

\* the steps of each public operation, in the order the code takes them
download_state_to_path_steps == <<"dl_exists", "dl_read", "dl_write">>
upload_state_from_path_steps == <<"ul_mkdir", "ul_read", "ul_write", "slv_read", "slv_write">>
set_latest_version_steps == <<"slv_read", "slv_write">>
get_latest_defs_state_info_steps == <<"get">>

Steps(o) ==
    CASE o = "download" -> download_state_to_path_steps
      [] o = "upload" -> upload_state_from_path_steps
      [] o = "set_latest" -> set_latest_version_steps
      [] o = "get_latest" -> get_latest_defs_state_info_steps

FirstLabel(o) == Steps(o)[1]

NextLabel(o, label) ==
    LET s == Steps(o)
        i == CHOOSE j \in 1..Len(s) : s[j] = label
    IN  IF i = Len(s) THEN "return" ELSE s[i + 1]

\* A frame: the store and the locals of one call.  err is the exception a
\* step raised ("" when none), ret what the call returns if this step is its
\* last; wrote and wroteBlob say what the step did to the store.
Frame(d, bl, cur, f) ==
    [dirs |-> d, blobs |-> bl, cursor |-> cur, file |-> f,
     buf |-> NoFile, upd |-> EmptyMapping,
     err |-> "", ret |-> "ok", wrote |-> FALSE, wroteBlob |-> "no"]

StepEffect(label, T, k, v) ==
    LET path == _get_state_path(k, v) IN
    CASE label = "dl_exists" ->
            \* if not remote_path.exists(): raise ValueError
            IF T.blobs[path] = NoFile THEN [T EXCEPT !.err = "ValueError"] ELSE T
      [] label = "dl_read" ->
            \* remote_path.read_bytes()
            [T EXCEPT !.buf = T.blobs[path]]
      [] label = "dl_write" ->
            \* path.write_bytes(...)
            [T EXCEPT !.file = T.buf]
      [] label = "ul_mkdir" ->
            IF Parent(path) \in T.dirs /\ ~mkdir_exist_ok
            THEN [T EXCEPT !.err = "FileExistsError"]
            ELSE [T EXCEPT !.dirs = mkdir_parents(T.dirs, path)]
      [] label = "ul_read" ->
            \* path.read_bytes()
            IF T.file = NoFile
            THEN [T EXCEPT !.err = "FileNotFoundError"]
            ELSE [T EXCEPT !.buf = T.file]
      [] label = "ul_write" ->
            \* remote_path.write_bytes(...): creates or overwrites
            [T EXCEPT !.blobs = write_bytes(T.blobs, path, T.buf), !.wroteBlob = "full"]
      [] label = "slv_read" ->
            \* the argument of set_cursor_values is evaluated first
            IF get_latest_raises(T.cursor)
            THEN [T EXCEPT !.err = "DeserializationError"]
            ELSE [T EXCEPT !.upd = updated_info(T.cursor, k, v)]
      [] label = "slv_write" ->
            [T EXCEPT !.cursor = set_cursor_values(T.cursor, INFO_KEY,
                                                   set_latest_version_value(T.upd)),
                      !.wrote = TRUE]
      [] label = "get" ->
            IF get_latest_raises(T.cursor)
            THEN [T EXCEPT !.err = "DeserializationError"]
            ELSE [T EXCEPT !.upd = get_latest_defs_state_info(T.cursor).info_mapping,
                           !.ret = IF get_latest_defs_state_info(T.cursor).present
                                   THEN "ok" ELSE "None"]

\* the steps that touch the blob backend or the run storage, and so can fail
\* (the local path fails only by being absent: FileNotFoundError in ul_read)
BlobSteps == {"dl_read", "ul_mkdir", "ul_write"}
CursorSteps == {"slv_read", "slv_write", "get"}
IOSteps == BlobSteps \cup CursorSteps

\* a backend failure at a step: nothing is changed, except that a failed
\* write_bytes may leave the blob cut short
FailEffect(label, T, k, v, partial) ==
    LET e == IF label \in BlobSteps THEN "OSError" ELSE "StorageError" IN
    IF label = "ul_write" /\ partial
    THEN [T EXCEPT !.err = e, !.wroteBlob = "partial",
                   !.blobs = write_bytes(T.blobs, _get_state_path(k, v), Truncated)]
    ELSE [T EXCEPT !.err = e]

\* a whole call of operation o from label on, run without interruption; the
\* backend fails at step failAt ("none": it does not fail)
RECURSIVE RunFrom(_, _, _, _, _, _, _)
RunFrom(T, o, label, k, v, failAt, partial) ==
    IF label = "return"
    THEN T
    ELSE LET T2 == IF label = failAt
                   THEN FailEffect(label, T, k, v, partial)
                   ELSE StepEffect(label, T, k, v)
         IN  IF T2.err # ""
             THEN T2
             ELSE RunFrom(T2, o, NextLabel(o, label), k, v, failAt, partial)

\* BlobStorageStateStorage.upload_state_from_path, called from a coroutine
upload_state_from_path(T, k, v, failAt, partial) ==
    RunFrom(T, "upload", FirstLabel("upload"), k, v, failAt, partial)

\* ------------------------------------------------------------------- state
VARIABLES
    dirs,        \* the directories that exist under base_dir, as paths
    blobs,       \* _get_state_path(key, version) -> bytes, or NoFile
    cursor,      \* the run storage's cursor values
    pc, op, key, ver,   \* each caller's position, operation and arguments
    buf,         \* the bytes a caller holds in memory
    upd,         \* the updated DefsStateInfo a caller is about to write
    file,        \* the caller's local path: its bytes, or NoFile
    result,      \* how the caller's last call ended
    calls,       \* facade calls started so far
    running,     \* the task that has the event loop, or "none"
    published,   \* history: key -> the version of the last completed pointer write for it
    lastSrc,     \* history: (key, version) -> the source bytes of the last blob write
    stale,       \* history: the record was written since this caller read it
    wrotePtr,    \* history: this call has written the pointer record
    expect,      \* history: the uploaded source bytes when this download read the blob
    direct,      \* history: (key, version) pairs passed to set_latest_version directly
    reup,        \* history: this call uploads what the store already holds and publishes
    phase,       \* where refresh_component_state is
    to_refresh,  \* the components of this run, by state key, in enumeration order
    statuses,    \* state key -> ComponentStateRefreshStatus
    task,        \* state key -> where the component's _refresh_component task is
    display,     \* the statuses last rendered by _update_display
    displays,    \* renderings after the initial one
    errors,      \* the (key, error) pairs collected after the run
    exit,        \* how the command ended: "none", "zero", or the error it raised
    outcome,     \* history: how each component's refresh_state ended in this run
    newver,      \* history: the version each component uploaded in this run
    screen       \* the lines the last rendering cleared and printed

storeVars == <<dirs, blobs, cursor>>
callVars == <<pc, op, key, ver, buf, upd, file, result, calls, running>>
histVars == <<published, lastSrc, stale, wrotePtr, expect, direct, reup>>
runVars == <<phase, to_refresh, statuses, task, display, displays, errors, exit,
             outcome, newver, screen>>
vars == <<storeVars, callVars, histVars, runVars>>

\* the mapping of the stored pointer record (empty when absent)
Pointer == get_latest_defs_state_info(cursor).info_mapping
PointerPresent == get_latest_defs_state_info(cursor).present

\* ---------------------------------------------------------------- Init
StoreInit ==
    /\ dirs = {}
    /\ blobs = [p \in Keys \X Versions |-> NoFile]
    /\ cursor = [c \in CursorKeys |-> IF c = INFO_KEY THEN NoValue ELSE OtherValue]
    /\ published = [k \in Keys |-> "None"]
    /\ lastSrc = [p \in Keys \X Versions |-> NoFile]

CallInit ==
    /\ pc = [c \in Callers |-> "idle"]
    /\ op = [c \in Callers |-> "none"]
    /\ key = [c \in Callers |-> "a"]
    /\ ver = [c \in Callers |-> "v1"]
    /\ buf = [c \in Callers |-> NoFile]
    /\ upd = [c \in Callers |-> EmptyMapping]
    /\ file = [c \in Callers |-> NoFile]
    /\ result = [c \in Callers |-> "none"]
    /\ calls = 0
    /\ running = "none"
    /\ stale = [c \in Callers |-> FALSE]
    /\ wrotePtr = [c \in Callers |-> FALSE]
    /\ expect = [c \in Callers |-> NoFile]
    /\ direct = {}
    /\ reup = [c \in Callers |-> FALSE]

RunInit ==
    /\ phase = "idle"
    /\ to_refresh = <<>>
    /\ statuses = EmptyMapping
    /\ task = EmptyMapping
    /\ display = EmptyMapping
    /\ displays = 0
    /\ errors = <<>>
    /\ exit = "none"
    /\ outcome = [k \in Keys |-> "none"]
    /\ newver = [k \in Keys |-> "None"]
    /\ screen = [cleared |-> 0, printed |-> 0]

Init == StoreInit /\ CallInit /\ RunInit

\* the store an earlier run of the command left: the components of done have
\* each uploaded and published version "v1"
StoreAfter(done) ==
    /\ dirs = {<<k>> : k \in done}
    /\ blobs = [p \in Keys \X Versions |->
                  IF p[1] \in done /\ p[2] = "v1" THEN "x" ELSE NoFile]
    /\ cursor = [c \in CursorKeys |->
                   IF c = OTHER_KEY THEN OtherValue
                   ELSE IF done = {} THEN NoValue
                   ELSE serialize_value([k \in done |-> "v1"])]
    /\ published = [k \in Keys |-> IF k \in done THEN "v1" ELSE "None"]
    /\ lastSrc = [p \in Keys \X Versions |->
                    IF p[1] \in done /\ p[2] = "v1" THEN "x" ELSE NoFile]

InitRun == (\E done \in SUBSET Keys : StoreAfter(done)) /\ CallInit /\ RunInit

\* the store already holds the upload (k, v, f): directory, blob and pointer entry
Holds(k, v, f) ==
    /\ f \in Bytes
    /\ Parent(_get_state_path(k, v)) \in dirs
    /\ blobs[<<k, v>>] = f
    /\ k \in DOMAIN Pointer
    /\ Pointer[k] = v

\* ------------------------------------------------- calling the facade
\* a caller starts one of the four public operations; the local file at path
\* holds bytes or is missing
Call(c) ==
    /\ pc[c] = "idle"
    /\ calls < MaxCalls
    /\ calls' = calls + 1
    /\ \E o \in {"download", "upload", "set_latest", "get_latest"},
          k \in CallKeys, v \in Versions, f \in Bytes \cup {NoFile} :
        /\ (o \in {"set_latest", "get_latest"} => f = NoFile)
        /\ (o = "get_latest" => k = "a" /\ v = "v1")
        /\ op' = [op EXCEPT ![c] = o]
        /\ key' = [key EXCEPT ![c] = k]
        /\ ver' = [ver EXCEPT ![c] = v]
        /\ file' = [file EXCEPT ![c] = f]
        /\ pc' = [pc EXCEPT ![c] = FirstLabel(o)]
        /\ direct' = IF o = "set_latest" THEN direct \cup {<<k, v>>} ELSE direct
        /\ reup' = [reup EXCEPT ![c] = o = "upload" /\ Holds(k, v, f)]
    /\ result' = [result EXCEPT ![c] = "running"]
    /\ wrotePtr' = [wrotePtr EXCEPT ![c] = FALSE]
    /\ expect' = [expect EXCEPT ![c] = NoFile]
    /\ UNCHANGED <<storeVars, buf, upd, running, published, lastSrc, stale, runVars>>

\* the frame of caller c, and the state after c's step with effect T
FrameOf(c) ==
    [Frame(dirs, blobs, cursor, file[c]) EXCEPT !.buf = buf[c], !.upd = upd[c]]

\* a set_latest_version that awaited between its read and its write-back
suspends_after_pointer_read(label) == label = "slv_read"

\* upload_state_from_path, set_latest_version and the except and display
\* lines of _refresh_component are plain calls: no step of them awaits
suspends_after(label) == FALSE

Apply(c, label, T) ==
    LET over == T.err # "" \/ NextLabel(op[c], label) = "return" IN
    /\ dirs' = T.dirs
    /\ blobs' = T.blobs
    /\ cursor' = T.cursor
    /\ file' = [file EXCEPT ![c] = T.file]
    /\ pc' = [pc EXCEPT ![c] = IF over THEN "idle" ELSE NextLabel(op[c], label)]
    /\ result' = [result EXCEPT ![c] =
                    IF T.err # "" THEN T.err ELSE IF over THEN T.ret ELSE "running"]
    /\ buf' = [buf EXCEPT ![c] = IF over THEN NoFile ELSE T.buf]
    /\ upd' = [upd EXCEPT ![c] = IF over /\ label # "get" THEN EmptyMapping ELSE T.upd]
    /\ published' = IF T.wrote THEN [published EXCEPT ![key[c]] = ver[c]] ELSE published
    /\ lastSrc' = CASE T.wroteBlob = "full" -> [lastSrc EXCEPT ![<<key[c], ver[c]>>] = file[c]]
                    [] T.wroteBlob = "partial" -> [lastSrc EXCEPT ![<<key[c], ver[c]>>] = Truncated]
                    [] OTHER -> lastSrc
    /\ stale' = [d \in Callers |->
                    IF d = c THEN FALSE
                    ELSE stale[d] \/ (T.wrote /\ pc[d] = "slv_write")]
    /\ wrotePtr' = [wrotePtr EXCEPT ![c] = wrotePtr[c] \/ T.wrote]
    /\ expect' = [expect EXCEPT ![c] =
                    IF label = "dl_read" /\ T.err = ""
                    THEN lastSrc[<<key[c], ver[c]>>] ELSE expect[c]]
    /\ running' = IF phase = "running"
                  THEN (IF suspends_after(label) THEN "none" ELSE c)
                  ELSE running
    /\ UNCHANGED <<op, key, ver, calls, direct, reup, runVars>>

Effect(c) == StepEffect(pc[c], FrameOf(c), key[c], ver[c])

\* download_state_to_path
DlExists(c) == pc[c] = "dl_exists" /\ Apply(c, "dl_exists", Effect(c))
DlRead(c) == pc[c] = "dl_read" /\ Apply(c, "dl_read", Effect(c))
DlWrite(c) == pc[c] = "dl_write" /\ Apply(c, "dl_write", Effect(c))
\* upload_state_from_path
UlMkdir(c) == pc[c] = "ul_mkdir" /\ Apply(c, "ul_mkdir", Effect(c))
UlRead(c) == pc[c] = "ul_read" /\ Apply(c, "ul_read", Effect(c))
UlWrite(c) == pc[c] = "ul_write" /\ Apply(c, "ul_write", Effect(c))
\* set_latest_version: the read of the record, then the write of the whole record
SlvRead(c) == pc[c] = "slv_read" /\ Apply(c, "slv_read", Effect(c))
SlvWrite(c) == pc[c] = "slv_write" /\ Apply(c, "slv_write", Effect(c))
\* get_latest_defs_state_info
Get(c) == pc[c] = "get" /\ Apply(c, "get", Effect(c))

\* an I/O error of the blob backend or of the run storage ends the call
IOFail(c) ==
    /\ pc[c] \in IOSteps
    /\ \E partial \in BOOLEAN :
        /\ (partial => pc[c] = "ul_write")
        /\ Apply(c, pc[c], FailEffect(pc[c], FrameOf(c), key[c], ver[c], partial))

Next ==
    \E c \in Callers :
        \/ Call(c)
        \/ DlExists(c) \/ DlRead(c) \/ DlWrite(c)
        \/ UlMkdir(c) \/ UlRead(c) \/ UlWrite(c)
        \/ SlvRead(c) \/ SlvWrite(c)
        \/ Get(c)
        \/ IOFail(c)

Spec == Init /\ [][Next]_vars

\* the facade used by one caller with key and version strings that hold the
\* path separator
SlashPaths == {_get_state_path(k, v) : k \in SlashKeys, v \in SlashVersions}

InitSlash ==
    /\ dirs = {}
    /\ blobs = [p \in SlashPaths |-> NoFile]
    /\ cursor = [c \in CursorKeys |-> IF c = INFO_KEY THEN NoValue ELSE OtherValue]
    /\ published = [k \in SlashKeys |-> "None"]
    /\ lastSrc = [p \in SlashKeys \X SlashVersions |-> NoFile]
    /\ CallInit
    /\ RunInit

CallSlash(c) ==
    /\ pc[c] = "idle"
    /\ calls < MaxCalls
    /\ calls' = calls + 1
    /\ \E o \in {"download", "upload"},
          k \in SlashKeys, v \in SlashVersions, f \in Bytes \cup {NoFile} :
        /\ op' = [op EXCEPT ![c] = o]
        /\ key' = [key EXCEPT ![c] = k]
        /\ ver' = [ver EXCEPT ![c] = v]
        /\ file' = [file EXCEPT ![c] = f]
        /\ pc' = [pc EXCEPT ![c] = FirstLabel(o)]
    /\ result' = [result EXCEPT ![c] = "running"]
    /\ wrotePtr' = [wrotePtr EXCEPT ![c] = FALSE]
    /\ expect' = [expect EXCEPT ![c] = NoFile]
    /\ UNCHANGED <<storeVars, buf, upd, running, published, lastSrc, stale, direct, reup,
                   runVars>>

NextSlash ==
    \/ CallSlash("t1")
    \/ DlExists("t1") \/ DlRead("t1") \/ DlWrite("t1")
    \/ UlMkdir("t1") \/ UlRead("t1") \/ UlWrite("t1")
    \/ SlvRead("t1") \/ SlvWrite("t1")

SpecSlash == InitSlash /\ [][NextSlash]_vars

\* the facade on a run storage whose INFO_KEY is unset or holds a value
\* that something other than this facade stored
InitStored ==
    /\ dirs = {}
    /\ blobs = [p \in Keys \X Versions |-> NoFile]
    /\ \E raw \in {NoValue, Undecodable} :
          cursor = [c \in CursorKeys |-> IF c = INFO_KEY THEN raw ELSE OtherValue]
    /\ published = [k \in Keys |-> "None"]
    /\ lastSrc = [p \in Keys \X Versions |-> NoFile]
    /\ CallInit
    /\ RunInit

SpecStored == InitStored /\ [][Next]_vars

\* ----------------------------------------------- the refresh command
\* ComponentStateRefreshStatus
Updating == [status |-> "updating", error |-> "None"]
\* _refresh_component: statuses[key] = ...(status="success")
status_on_return == [status |-> "success", error |-> "None"]
\* an except branch that records success
status_on_raise_swallowed(e) == [status |-> "success", error |-> "None"]

\* an error status that does not keep the exception
status_on_raise_no_error(e) == [status |-> "error", error |-> "None"]

\* _refresh_component: except Exception as e: statuses[key] = ...(status="error", error=e)
status_on_raise(e) == [status |-> "error", error |-> e]

\* tree.get_all_components(of_type=StateBackedComponent): any of the
\* components, each with its own state key, in tree order
RECURSIVE SubSeqs(_)
SubSeqs(s) ==
    IF s = <<>>
    THEN {<<>>}
    ELSE LET rest == SubSeqs(Tail(s))
         IN  rest \cup {<<Head(s)>> \o r : r \in rest}

Range(s) == {s[i] : i \in 1..Len(s)}

\* the state keys of a sequence of components
Targets == Range(to_refresh)

\* refresh_component_state up to the statuses dict: every component is "updating"
StartRun ==
    /\ phase = "idle"
    /\ \E comps \in SubSeqs(KeyOrder) :
        /\ to_refresh' = comps
        /\ statuses' = [k \in Range(comps) |-> Updating]
        /\ task' = [k \in Range(comps) |-> "none"]
    /\ phase' = "init"
    /\ display' = EmptyMapping
    /\ displays' = 0
    /\ errors' = <<>>
    /\ exit' = "none"
    /\ outcome' = [k \in Keys |-> "none"]
    /\ newver' = [k \in Keys |-> "None"]
    /\ screen' = [cleared |-> 0, printed |-> 0]
    /\ UNCHANGED <<storeVars, callVars, histVars>>

\* a cursor that moves up over the status lines and not over the header line
lines_to_clear_no_header(st) == Cardinality(DOMAIN st)

\* _update_display, not initial: lines_to_clear = len(statuses) + 1, the
\* cursor moves up that many lines and clears from there to the end
lines_to_clear(st) == Cardinality(DOMAIN st) + 1

\* _update_display prints the header line, then one line per entry of the map
lines_printed(st) == Cardinality(DOMAIN st) + 1

\* a rendering that shows what the screen already showed
_update_display_previous(st) == display

\* _update_display(statuses): one line for every entry of the status map
_update_display(st) == st

\* _update_display(statuses, initial=True)
InitialDisplay ==
    /\ phase = "init"
    /\ display' = _update_display(statuses)
    /\ screen' = [cleared |-> 0, printed |-> lines_printed(statuses)]
    /\ phase' = "displayed"
    /\ UNCHANGED <<storeVars, callVars, histVars, to_refresh, statuses, task, displays,
                   errors, exit, outcome, newver>>

\* the point of refresh_component_state at which asyncio.run is called, were
\* it called before the initial display
launch_point_before_display == "init"

\* refresh_component_state calls asyncio.run after the initial display
launch_point == "displayed"

\* asyncio.run(_refresh_components_with_display(...)): gather makes one task
\* per coroutine
Launch ==
    /\ phase = launch_point
    /\ task' = [k \in Targets |-> "pending"]
    /\ phase' = "running"
    /\ UNCHANGED <<storeVars, callVars, histVars, to_refresh, statuses, display, displays, screen,
                   errors, exit, outcome, newver>>

\* the event loop starts the tasks in the order gather made them; a task
\* runs _refresh_component up to the suspension inside refresh_state
TaskStart(k) ==
    /\ phase = "running"
    /\ k \in Targets
    /\ task[k] = "pending"
    /\ \A i, j \in 1..Len(to_refresh) :
          to_refresh[j] = k /\ i < j => task[to_refresh[i]] # "pending"
    /\ task' = [task EXCEPT ![k] = "awaiting"]
    /\ UNCHANGED <<storeVars, callVars, histVars, phase, to_refresh, statuses, display,
                   displays, screen, errors, exit, outcome, newver>>

\* a task that runs the refresh again after it failed
after_refresh_retry(raised) == IF raised THEN "pending" ELSE "done"

\* _refresh_component returns once the status is recorded: the task is done
after_refresh(raised) == "done"

\* the exception classes the model raises; all of them derive from Exception
ExceptionClasses ==
    {"RefreshError", "OSError", "StorageError", "FileNotFoundError",
     "FileExistsError", "DeserializationError", "ValueError"}

\* a handler that catches the component's own error class only
except_refresh_error_only(e) == e = "RefreshError"

\* _refresh_component: except Exception as e
except_Exception(e) == e \in ExceptionClasses

\* the task is resumed and runs to its end without giving up the loop:
\* refresh_state raises, or uploads the new state and returns or raises; then
\* _refresh_component records the status and renders it.  An exception the
\* handler does not catch leaves the task: gather raises it in
\* _refresh_components_with_display, asyncio.run cancels the tasks that are
\* not done and the command ends with that exception.
\* statuses[key] = ...: a dict assignment overwrites the entry of a key the
\* map has and adds an entry for a key it has not
dict_set(st, k, val) == [j \in DOMAIN st \cup {k} |-> IF j = k THEN val ELSE st[j]]

Finish(k, T, v, raised, e) ==
    LET escapes == raised /\ ~except_Exception(e) IN
    /\ dirs' = T.dirs
    /\ blobs' = T.blobs
    /\ cursor' = T.cursor
    /\ published' = IF T.wrote THEN [published EXCEPT ![k] = v] ELSE published
    /\ lastSrc' = CASE T.wroteBlob = "full" -> [lastSrc EXCEPT ![<<k, v>>] = T.file]
                    [] T.wroteBlob = "partial" -> [lastSrc EXCEPT ![<<k, v>>] = Truncated]
                    [] OTHER -> lastSrc
    /\ outcome' = [outcome EXCEPT ![k] = IF raised THEN "raised" ELSE "returned"]
    /\ newver' = [newver EXCEPT ![k] = IF raised THEN "None" ELSE v]
    /\ statuses' = IF escapes THEN statuses
                   ELSE dict_set(statuses, k,
                           IF raised THEN status_on_raise(e) ELSE status_on_return)
    /\ display' = IF escapes THEN display ELSE _update_display(statuses')
    /\ screen' = IF escapes THEN screen
                 ELSE [cleared |-> lines_to_clear(statuses'),
                       printed |-> lines_printed(statuses')]
    /\ displays' = IF escapes THEN displays ELSE displays + 1
    /\ task' = IF escapes
               THEN [j \in Targets |->
                       IF j = k THEN "done"
                       ELSE IF task[j] = "done" THEN "done" ELSE "cancelled"]
               ELSE [task EXCEPT ![k] = after_refresh(raised)]
    /\ phase' = IF escapes THEN "aborted" ELSE phase
    /\ exit' = IF escapes THEN e ELSE exit
    /\ UNCHANGED <<callVars, stale, wrotePtr, expect, direct, reup, to_refresh, errors>>

\* the state a component computes for a version: the version names the content
state_bytes(v) == IF v = "v1" THEN "x" ELSE "y"

\* refresh_state raises before it uploads anything
RefreshRaises(k) ==
    /\ phase = "running"
    /\ k \in Targets
    /\ task[k] = "awaiting"
    /\ Finish(k, Frame(dirs, blobs, cursor, NoFile), "v1", TRUE, "RefreshError")

\* refresh_state has written its state file and calls upload_state_from_path
RefreshUploads(k) ==
    /\ phase = "running"
    /\ k \in Targets
    /\ task[k] = "awaiting"
    /\ \E v \in Versions, failAt \in {"none"} \cup IOSteps, partial \in BOOLEAN :
        /\ failAt \in {"none"} \cup Range(Steps("upload"))
        /\ (partial => failAt = "ul_write")
        /\ LET T == upload_state_from_path(Frame(dirs, blobs, cursor, state_bytes(v)),
                                            k, v, failAt, partial)
           IN  Finish(k, T, v, T.err # "", T.err)

\* a wait that returns when the first task is done
gather_first_completed == Targets = {} \/ \E k \in Targets : task[k] = "done"

\* a wait that goes on until every component has succeeded
gather_all_succeeded ==
    \A k \in Targets : task[k] = "done" /\ statuses[k].status = "success"

\* await asyncio.gather(*coroutines) returns when every task is done
gather_done == \A k \in Targets : task[k] = "done"

GatherReturn ==
    /\ phase = "running"
    /\ gather_done
    /\ phase' = "aggregate"
    /\ UNCHANGED <<storeVars, callVars, histVars, to_refresh, statuses, task, display,
                   displays, screen, errors, exit, outcome, newver>>

\* a collection that stops at the first failed component
collect_errors_first_only ==
    LET failed == SelectSeq(to_refresh, LAMBDA k : statuses[k].status = "error")
    IN  IF failed = <<>> THEN <<>> ELSE << <<failed[1], statuses[failed[1]].error>> >>

\* errors = [(key, status.error) for key, status in statuses.items()
\*           if status.status == "error" and status.error]
collect_errors ==
    LET failed == SelectSeq(to_refresh,
                    LAMBDA k : statuses[k].status = "error" /\ statuses[k].error # "None")
    IN  [i \in 1..Len(failed) |-> <<failed[i], statuses[failed[i]].error>>]

\* a test that needs more than one error
errors_more_than_one(errs) == Len(errs) > 1

\* refresh_component_state: if errors:
errors_nonempty(errs) == errs # <<>>

\* a command that refuses to end well when it had nothing to refresh
final_exit_needs_components(errs) ==
    IF errs # <<>> THEN errs[1][2]
    ELSE IF to_refresh = <<>> THEN "NoComponents" ELSE "zero"

\* a command that fails with the error collected last
final_exit_last_error(errs) == IF errs # <<>> THEN errs[Len(errs)][2] ELSE "zero"

\* raise errors[0][1]; otherwise "Done!" and a return
final_exit(errs) == IF errors_nonempty(errs) THEN errs[1][2] ELSE "zero"

Aggregate ==
    /\ phase = "aggregate"
    /\ errors' = collect_errors
    /\ exit' = final_exit(collect_errors)
    /\ phase' = IF final_exit(collect_errors) = "zero" THEN "done" ELSE "failed"
    /\ UNCHANGED <<storeVars, callVars, histVars, to_refresh, statuses, task, display,
                   displays, screen, outcome, newver>>

NextRun ==
    \/ StartRun
    \/ InitialDisplay
    \/ Launch
    \/ \E k \in Keys : TaskStart(k) \/ RefreshRaises(k) \/ RefreshUploads(k)
    \/ GatherReturn
    \/ Aggregate

SpecRun == InitRun /\ [][NextRun]_vars

\* the command runs on; the event loop runs every task that can run; every
\* refresh_state eventually returns or raises
SpecRunFair ==
    /\ SpecRun
    /\ WF_vars(StartRun)
    /\ WF_vars(InitialDisplay)
    /\ WF_vars(Launch)
    /\ \A k \in Keys : WF_vars(TaskStart(k))
    /\ \A k \in Keys : WF_vars(RefreshRaises(k) \/ RefreshUploads(k))
    /\ WF_vars(GatherReturn)
    /\ WF_vars(Aggregate)

\* ------------------------------------- the tasks of one run, step by step
\* SpecLoop: the two tasks of a run of two components on one event loop,
\* with every storage access of a task's upload as one step.

\* the component whose _refresh_component coroutine is task c
component_of(c) == IF c = "t1" THEN "a" ELSE "b"

LoopComponents == {component_of(c) : c \in Callers}

\* the run after asyncio.gather made its tasks: every task waits in
\* `await component.refresh_state()`
InitLoop ==
    /\ StoreInit
    /\ CallInit
    /\ phase = "running"
    /\ to_refresh = <<"a", "b">>
    /\ statuses = [k \in LoopComponents |-> Updating]
    /\ task = [k \in LoopComponents |-> "awaiting"]
    /\ display = [k \in LoopComponents |-> Updating]
    /\ displays = 0
    /\ errors = <<>>
    /\ exit = "none"
    /\ outcome = [k \in Keys |-> "none"]
    /\ newver = [k \in Keys |-> "None"]
    /\ screen = [cleared |-> 0, printed |-> lines_printed(statuses)]

\* the event loop runs one task at a time: the task that has the loop, or,
\* when no task has it, a task that waits inside a call
HoldsLoop(c) == running = c \/ (running = "none" /\ pc[c] # "idle")

\* the loop resumes task c in refresh_state, which raises
ResumeRaises(c) ==
    /\ running = "none"
    /\ task[component_of(c)] = "awaiting"
    /\ running' = c
    /\ task' = [task EXCEPT ![component_of(c)] = "resumed"]
    /\ result' = [result EXCEPT ![c] = "RefreshError"]
    /\ UNCHANGED <<storeVars, pc, op, key, ver, buf, upd, file, calls, histVars, phase,
                   to_refresh, statuses, display, displays, errors, exit, outcome,
                   newver, screen>>

\* the loop resumes task c in refresh_state, which calls
\* upload_state_from_path(key, version, path)
ResumeUploads(c) ==
    /\ running = "none"
    /\ task[component_of(c)] = "awaiting"
    /\ running' = c
    /\ task' = [task EXCEPT ![component_of(c)] = "resumed"]
    /\ \E v \in Versions :
        /\ op' = [op EXCEPT ![c] = "upload"]
        /\ key' = [key EXCEPT ![c] = component_of(c)]
        /\ ver' = [ver EXCEPT ![c] = v]
        /\ file' = [file EXCEPT ![c] = state_bytes(v)]
        /\ pc' = [pc EXCEPT ![c] = FirstLabel("upload")]
    /\ result' = [result EXCEPT ![c] = "running"]
    /\ UNCHANGED <<storeVars, buf, upd, calls, histVars, phase, to_refresh, statuses,
                   display, displays, errors, exit, outcome, newver, screen>>

\* _refresh_component after refresh_state returned or raised:
\* statuses[key] = ...
RecordStatus(c) ==
    LET k == component_of(c) IN
    /\ running \in {c, "none"}
    /\ task[k] = "resumed"
    /\ pc[c] = "idle"
    /\ statuses' = dict_set(statuses, k,
                      IF result[c] \in ExceptionClasses
                      THEN status_on_raise(result[c]) ELSE status_on_return)
    /\ task' = [task EXCEPT ![k] = "status_set"]
    /\ running' = IF suspends_after("set_status") THEN "none" ELSE c
    /\ UNCHANGED <<storeVars, pc, op, key, ver, buf, upd, file, result, calls, histVars,
                   phase, to_refresh, display, displays, errors, exit, outcome, newver,
                   screen>>

\* _refresh_component: _update_display(statuses), and the coroutine ends
Redisplay(c) ==
    LET k == component_of(c) IN
    /\ running \in {c, "none"}
    /\ task[k] = "status_set"
    /\ display' = _update_display(statuses)
    /\ displays' = displays + 1
    /\ screen' = [cleared |-> lines_to_clear(statuses),
                  printed |-> lines_printed(statuses)]
    /\ task' = [task EXCEPT ![k] = "done"]
    /\ running' = "none"
    /\ UNCHANGED <<storeVars, pc, op, key, ver, buf, upd, file, result, calls, histVars,
                   phase, to_refresh, statuses, errors, exit, outcome, newver>>

NextLoop ==
    \E c \in Callers :
        \/ ResumeRaises(c)
        \/ ResumeUploads(c)
        \/ HoldsLoop(c) /\ UlMkdir(c)
        \/ HoldsLoop(c) /\ UlRead(c)
        \/ HoldsLoop(c) /\ UlWrite(c)
        \/ HoldsLoop(c) /\ SlvRead(c)
        \/ HoldsLoop(c) /\ SlvWrite(c)
        \/ HoldsLoop(c) /\ IOFail(c)
        \/ RecordStatus(c)
        \/ Redisplay(c)

SpecLoop == InitLoop /\ [][NextLoop]_vars

\* ------------------------------------------------------------ the claims
AllIdle == \A c \in Callers : pc[c] = "idle"

\* C1: no lost update.  Once the concurrent set_latest_version calls have
\* returned, the pointer record holds, for every key, the version of the last
\* completed publication of that key.
NoLostUpdate ==
    AllIdle =>
        \A k \in Keys :
            published[k] # "None" => k \in DOMAIN Pointer /\ Pointer[k] = published[k]

\* C2: the read-modify-write of set_latest_version is serialized: no other
\* writer writes the pointer record between a call's read and its write-back.
SerializedReadModifyWrite == \A c \in Callers : ~stale[c]

\* C3: write-before-publish.  An upload_state_from_path that failed in the
\* blob phase (ensuring the directory, reading the source, writing the blob)
\* has not executed set_latest_version's write.
BlobPhaseErrors == {"FileExistsError", "FileNotFoundError", "OSError"}

WriteBeforePublish ==
    \A c \in Callers :
        op[c] = "upload" /\ result[c] \in BlobPhaseErrors => ~wrotePtr[c]

\* an upload failed while writing the blob, and its key has no pointer entry
WriteBeforePublishWitness ==
    \E c \in Callers :
        /\ op[c] = "upload"
        /\ result[c] = "OSError"
        /\ blobs[<<key[c], ver[c]>>] = Truncated
        /\ key[c] \notin DOMAIN Pointer

\* C4 as stated: after any sequence of the four public operations every key
\* of the pointer record maps to a version whose blob exists.
PointerImpliesBlob ==
    \A k \in DOMAIN Pointer : blobs[<<k, Pointer[k]>>] # NoFile

\* C4 amended: every key of the pointer record maps to a version whose blob
\* exists, unless that (key, version) was passed to set_latest_version directly.
PointerImpliesBlobViaUpload ==
    \A k \in DOMAIN Pointer :
        blobs[<<k, Pointer[k]>>] # NoFile \/ <<k, Pointer[k]>> \in direct

\* an upload has published a key whose blob exists
PointerImpliesBlobWitness ==
    \E k \in DOMAIN Pointer :
        /\ blobs[<<k, Pointer[k]>>] \in Bytes
        /\ <<k, Pointer[k]>> \notin direct
        /\ published[k] = Pointer[k]

\* C7: round trip.  A download_state_to_path that follows an upload of the
\* same (key, version) writes to its destination the bytes the source held
\* at upload time.
RoundTrip ==
    \A c \in Callers :
        op[c] = "download" /\ result[c] = "ok" /\ expect[c] \in Bytes
            => file[c] = expect[c]

\* a download returned the bytes another call uploaded
RoundTripWitness ==
    \E c \in Callers :
        /\ op[c] = "download"
        /\ result[c] = "ok"
        /\ expect[c] \in Bytes
        /\ file[c] = expect[c]
        /\ calls = 2

\* C8: idempotent re-upload.  Every step of an upload of what the store
\* already holds and publishes, with no writer in between and no backend
\* failure, raises nothing and leaves directories, blobs and pointer record
\* as they were.
IdempotentReupload ==
    [][\A c \in Callers :
        ( /\ op[c] = "upload"
          /\ pc[c] # "idle"
          /\ pc'[c] # pc[c]
          /\ Holds(key[c], ver[c], file[c])
          /\ ~stale[c]
          /\ result'[c] \notin {"OSError", "StorageError"} )
        => /\ result'[c] \in {"running", "ok"}
           /\ storeVars' = storeVars]_vars

\* a second upload of the same (key, version, bytes) has returned
IdempotentReuploadWitness ==
    \E c \in Callers :
        /\ reup[c]
        /\ op[c] = "upload"
        /\ result[c] = "ok"
        /\ Holds(key[c], ver[c], file[c])

ReportedKeys == {errors[i][1] : i \in 1..Len(errors)}

\* C5: partial-failure isolation.  When the command has ended, the keys it
\* reported as failed are exactly the components whose refresh raised, and
\* the pointer record holds the newly uploaded version of every component
\* whose refresh returned.
PartialFailureIsolation ==
    phase \in {"done", "failed"} =>
        /\ ReportedKeys = {k \in Targets : outcome[k] = "raised"}
        /\ \A k \in Targets :
              outcome[k] = "returned" => k \in DOMAIN Pointer /\ Pointer[k] = newver[k]

\* three components, one raised: one key reported, the other two republished
PartialFailureIsolationWitness ==
    /\ phase = "failed"
    /\ Len(to_refresh) = 3
    /\ Len(errors) = 1
    /\ \A k \in Targets \ ReportedKeys :
          /\ outcome[k] = "returned"
          /\ newver[k] = "v2"
          /\ Pointer[k] = "v2"
          /\ blobs[<<k, "v1">>] = "x"

\* C6: durability of a success.  From the moment a component's upload has
\* returned, in every later state of the run, the pointer record's entry for
\* its key is the version it uploaded, whatever its siblings do.
DurableSuccess ==
    \A k \in Keys :
        outcome[k] = "returned" => k \in DOMAIN Pointer /\ Pointer[k] = newver[k]

\* two components have published one after the other and a third has failed
DurableSuccessWitness ==
    \E k1, k2, k3 \in Targets :
        /\ k1 # k2
        /\ outcome[k1] = "returned" /\ Pointer[k1] = newver[k1]
        /\ outcome[k2] = "returned" /\ Pointer[k2] = newver[k2]
        /\ outcome[k3] = "raised"

\* C10: full-barrier join.  Once gather has returned -- during the error
\* aggregation and after the command has ended -- every targeted component's
\* task is done and its status is success or error.
FullBarrierJoin ==
    phase \in {"aggregate", "done", "failed"} =>
        \A k \in Targets :
            task[k] = "done" /\ statuses[k].status \in {"success", "error"}

\* the command has ended after a run in which one task failed and one succeeded
FullBarrierJoinWitness ==
    /\ phase = "failed"
    /\ \E k1, k2 \in Targets :
          statuses[k1].status = "error" /\ statuses[k2].status = "success"

\* the components whose final status is error
ErrorKeys == {k \in Targets : statuses[k].status = "error"}

\* C11: total isolation of tasks.  The step in which a component's refresh
\* raises -- whatever the error and whatever the other tasks have done so
\* far -- records that component's error status with the error raised,
\* leaves the command running, and leaves the task and the status of every
\* sibling as they were; no task is ever cancelled.
TotalIsolation ==
    [][\A k \in Keys :
        (outcome[k] = "none" /\ outcome'[k] = "raised")
        => /\ statuses'[k].status = "error"
           /\ statuses'[k].error \in ExceptionClasses
           /\ phase' = "running"
           /\ \A j \in Targets \ {k} :
                 /\ task'[j] = task[j]
                 /\ statuses'[j] = statuses[j]
                 /\ task'[j] # "cancelled"]_vars

\* a refresh failed in its own code and another in the blob write, each
\* recorded on its own key, after which and before which siblings ran on
TotalIsolationWitness ==
    \E k1, k2, k3 \in Targets :
        /\ statuses[k1] = status_on_raise("RefreshError")
        /\ statuses[k2] = status_on_raise("OSError")
        /\ statuses[k3].status = "success"
        /\ to_refresh = <<k1, k3, k2>>

\* C12: the command ends in failure exactly when at least one targeted
\* component ended the run in error status, and exits zero otherwise.
ExitReflectsErrors ==
    phase \in {"done", "failed"} =>
        /\ (exit # "zero") = (ErrorKeys # {})
        /\ (phase = "failed") = (ErrorKeys # {})
        /\ exit # "none"

\* one of two components failed and the command ended with its error
ExitReflectsErrorsWitness ==
    /\ phase = "failed"
    /\ exit = "StorageError"
    /\ Cardinality(ErrorKeys) = 1
    /\ Len(to_refresh) = 2

\* C13: complete error enumeration.  On a failed batch the reported list
\* has exactly one pair for every component whose final status is error,
\* carrying the error captured for it, and no pair for a successful one.
CompleteErrorEnumeration ==
    phase = "failed" =>
        /\ ReportedKeys = ErrorKeys
        /\ Len(errors) = Cardinality(ErrorKeys)
        /\ \A i \in 1..Len(errors) :
              /\ errors[i][2] = statuses[errors[i][1]].error
              /\ statuses[errors[i][1]].status # "success"

\* two components failed with different errors, the third succeeded
CompleteErrorEnumerationWitness ==
    /\ phase = "failed"
    /\ Len(errors) = 2
    /\ errors[1][2] # errors[2][2]
    /\ \E k \in Targets : statuses[k].status = "success"

\* C14: empty batch.  A run with no targeted component launches no task,
\* changes neither the pointer record nor any blob in any of its steps (an
\* absent record stays absent), and ends with a zero exit.
EmptyBatch ==
    [][(Targets' = {} /\ phase' # "idle")
        => /\ cursor' = cursor
           /\ blobs' = blobs
           /\ PointerPresent' = PointerPresent
           /\ task' = EmptyMapping
           /\ displays' = 0
           /\ phase' \in {"init", "displayed", "running", "aggregate", "done"}
           /\ (phase' = "done" => exit' = "zero")]_vars

\* the command has ended on an empty component set over an absent record
EmptyBatchWitness ==
    /\ phase = "done"
    /\ Targets = {}
    /\ exit = "zero"
    /\ cursor[INFO_KEY] = NoValue

\* C15: first-ever refresh.  In a run of a single component over an absent
\* pointer record, the step in which the component's refresh returns makes
\* the record present with exactly one entry: the component's key, at the
\* non-empty version it uploaded.
FirstEverRefresh ==
    [][\A k \in Keys :
        ( /\ to_refresh = <<k>>
          /\ cursor[INFO_KEY] = NoValue
          /\ outcome[k] = "none"
          /\ outcome'[k] = "returned" )
        => /\ cursor'[INFO_KEY] # NoValue
           /\ ~get_latest_raises(cursor')
           /\ DOMAIN Pointer' = {k}
           /\ Pointer'[k] = newver'[k]
           /\ Pointer'[k] \in Versions
           /\ Pointer'[k] # ""]_vars

\* the single component's first refresh has published its version
FirstEverRefreshWitness ==
    /\ phase = "done"
    /\ to_refresh = <<"b">>
    /\ DOMAIN Pointer = {"b"}
    /\ Pointer["b"] = "v2"
    /\ blobs[<<"b", "v1">>] = NoFile
    /\ dirs = {<<"b">>}

\* C16 as stated: the write of set_latest_version(key, version) changes only
\* the entry for key: afterwards that entry references version, and every
\* other key the pointer record held is still there with its version.
SetLatestChangesOnlyKey ==
    [][\A c \in Callers :
        (pc[c] = "slv_write" /\ pc'[c] = "idle" /\ result'[c] = "ok")
        => /\ key[c] \in DOMAIN Pointer'
           /\ Pointer'[key[c]] = ver[c]
           /\ \A j \in (DOMAIN Pointer) \ {key[c]} :
                 j \in DOMAIN Pointer' /\ Pointer'[j] = Pointer[j]]_vars

\* C17: get_latest_defs_state_info returns None exactly when no
\* set_latest_version has completed against the store; a record once stored
\* is never absent again; and None differs from a record with no entry.
AbsentIffNeverPublished ==
    [][/\ \A c \in Callers :
             (pc[c] = "get" /\ pc'[c] = "idle" /\ result'[c] \in {"ok", "None"})
             => (result'[c] = "None") = (\A k \in Keys : published[k] = "None")
       /\ (cursor[INFO_KEY] # NoValue => cursor'[INFO_KEY] # NoValue)
       /\ get_latest_defs_state_info(
              set_cursor_values(cursor, INFO_KEY, serialize_value(EmptyMapping)))
             # get_latest_defs_state_info(set_cursor_values(cursor, INFO_KEY, NoValue))
      ]_vars

\* a read after a publication returned the record, not None
AbsentIffNeverPublishedWitness ==
    \E c \in Callers :
        /\ op[c] = "get_latest"
        /\ result[c] = "ok"
        /\ DOMAIN upd[c] = {"b"}
        /\ published["b"] = upd[c]["b"]

\* C18: while the stored record is undecodable, get_latest_defs_state_info
\* ends in an error (never None, never a record), and set_latest_version
\* ends in an error at its read and leaves the stored value as it is.
UndecodableSurfaces ==
    [][cursor[INFO_KEY] = Undecodable
        => /\ cursor'[INFO_KEY] = Undecodable
           /\ \A c \in Callers :
                 (pc[c] \in {"get", "slv_read"} /\ pc'[c] # pc[c])
                 => /\ pc'[c] = "idle"
                    /\ result'[c] \in {"DeserializationError", "StorageError"}]_vars

\* a read and a set_latest_version have both failed on the undecodable record
UndecodableSurfacesWitness ==
    \E c, d \in Callers :
        /\ op[c] = "get_latest" /\ result[c] = "DeserializationError"
        /\ op[d] = "set_latest" /\ result[d] = "DeserializationError"
        /\ cursor[INFO_KEY] = Undecodable

\* C19 as stated: a set_latest_version whose read has been overtaken by
\* another writer (a conflict) does not write: it goes back to its read, or
\* fails with the storage error.
ConflictRetriedOrFails ==
    [][\A c \in Callers :
        (pc[c] = "slv_write" /\ stale[c] /\ pc'[c] # "slv_write")
        => /\ cursor' = cursor
           /\ (pc'[c] = "slv_read" \/ result'[c] = "StorageError")]_vars

\* C20: the pointer record is replaced atomically.  A read returns the
\* whole record stored at that moment -- the one before or the one after any
\* concurrent write -- and a write puts the complete updated record in
\* place in one step.
AtomicReplace ==
    [][\A c \in Callers :
        /\ (pc[c] = "get" /\ pc'[c] = "idle" /\ result'[c] = "ok")
           => /\ upd'[c] = Pointer
              /\ cursor' = cursor
              /\ \A d \in Callers \ {c} :
                    pc[d] = "slv_write" => upd'[c] # upd[d] \/ upd[d] = Pointer
        /\ (pc[c] = "slv_write" /\ pc'[c] # "slv_write" /\ cursor' # cursor)
           => /\ cursor'[INFO_KEY] = serialize_value(upd[c])
              /\ CanDeserialize(cursor'[INFO_KEY])
              /\ Pointer' = upd[c]]_vars

\* a read has returned the record a set_latest_version of the other caller
\* put in place
AtomicReplaceWitness ==
    \E c, d \in Callers :
        /\ op[c] = "get_latest" /\ result[c] = "ok"
        /\ op[d] = "set_latest" /\ result[d] = "ok"
        /\ upd[c] = Pointer
        /\ DOMAIN upd[c] = {key[d]}

Terminal == {"success", "error"}

\* C21: status state machine.  Every key's status starts as updating; a
\* status changes only from updating, and only to success or error, so a
\* terminal status never changes again; an error status carries the captured
\* error and a success or updating status carries none; when the command has
\* ended every status has made its transition.
StatusStateMachine ==
    [][/\ (phase = "idle" => \A k \in DOMAIN statuses' : statuses'[k] = Updating)
       /\ (phase # "idle"
             => /\ DOMAIN statuses' = DOMAIN statuses
                /\ \A k \in DOMAIN statuses :
                      statuses'[k] # statuses[k]
                      => statuses[k] = Updating /\ statuses'[k].status \in Terminal)
       /\ \A k \in DOMAIN statuses' :
             (statuses'[k].status = "error") = (statuses'[k].error # "None")
       /\ (phase' \in {"done", "failed"}
             => \A k \in DOMAIN statuses' : statuses'[k].status \in Terminal)]_vars

\* one status is still updating, one is success, one is error with its error
StatusStateMachineWitness ==
    \E k1, k2, k3 \in Targets :
        /\ statuses[k1] = Updating
        /\ statuses[k2] = status_on_return
        /\ statuses[k3] = status_on_raise("StorageError")

\* C22: initialization order.  When a component's refresh is started its
\* status is updating and the initial display has been rendered for every
\* targeted key; when the first refresh is started every status is updating
\* and is on display.
InitializationOrder ==
    [][\A k \in Targets :
        (task[k] # "awaiting" /\ task'[k] = "awaiting")
        => /\ statuses[k] = Updating
           /\ DOMAIN display = Targets
           /\ ((\A j \in Targets : task[j] = "pending")
                 => /\ \A j \in Targets : statuses[j] = Updating
                    /\ display = statuses)]_vars

\* the first of three refreshes has been started, all three keys on display
InitializationOrderWitness ==
    /\ Len(to_refresh) = 3
    /\ task[to_refresh[1]] = "awaiting"
    /\ task[to_refresh[2]] = "pending"
    /\ task[to_refresh[3]] = "pending"
    /\ display = [k \in Targets |-> Updating]

\* C23: every change of the status map is rendered in the same step, so
\* after the initial display the display always equals the status map; the
\* renderings after the initial one are as many as the tasks that are done,
\* and as many as the components when the command has ended.
DisplayFollowsStatus ==
    [][/\ (phase # "idle" /\ statuses' # statuses)
          => display' = statuses' /\ displays' = displays + 1
       /\ (phase' \notin {"idle", "init"}
          => /\ display' = statuses'
             /\ displays' = Cardinality({k \in Targets' : task'[k] = "done"}))
       /\ (phase' \in {"done", "failed"} => displays' = Len(to_refresh'))]_vars

\* two of three tasks are done and both transitions are on display
DisplayFollowsStatusWitness ==
    /\ phase = "running"
    /\ Len(to_refresh) = 3
    /\ displays = 2
    /\ display = statuses
    /\ \E k \in Targets : display[k] = Updating

\* C24: termination.  Under fair scheduling, with every refresh returning or
\* raising, the command eventually ends, with success or with the aggregate
\* failure, and every targeted component is then in a terminal status.
Termination ==
    <>(/\ phase \in {"done", "failed"}
       /\ \A k \in Targets : statuses[k].status \in Terminal)

\* a run of three components has ended with the aggregate failure
TerminationWitness ==
    /\ phase = "failed"
    /\ Len(to_refresh) = 3
    /\ \A k \in Targets : statuses[k].status \in Terminal /\ task[k] = "done"

\* C25: one task per component, no retry.  A refresh is started only from a
\* task that has not yet run and has no outcome; a task that is done stays
\* done; when the command has ended every component's refresh has been
\* invoked.
InvokedExactlyOnce ==
    [][/\ \A k \in Targets :
             /\ (task[k] # "awaiting" /\ task'[k] = "awaiting")
                => task[k] = "pending" /\ outcome[k] = "none"
             /\ (task[k] = "done" => task'[k] = "done")
             /\ (task[k] = "awaiting" => task'[k] \in {"awaiting", "done"})
       /\ (phase' \in {"done", "failed"}
             => \A k \in Targets' : outcome'[k] # "none" /\ task'[k] = "done")]_vars

\* a failed refresh is recorded and its task is done while a sibling runs
InvokedExactlyOnceWitness ==
    \E k1, k2 \in Targets :
        /\ outcome[k1] = "raised"
        /\ task[k1] = "done"
        /\ statuses[k1].status = "error"
        /\ task[k2] = "awaiting"
        /\ phase = "running"

\* C27: a component whose refresh raises leaves its pointer entry as it was.
\* No step of the run changes the entry of a key whose refresh has not
\* returned: a key without an entry has none, a key with an entry keeps its
\* version.
FailedRefreshKeepsEntry ==
    [][\A k \in Keys :
        outcome'[k] # "returned"
        => /\ (k \in DOMAIN Pointer') = (k \in DOMAIN Pointer)
           /\ (k \in DOMAIN Pointer => Pointer'[k] = Pointer[k])]_vars

\* an upload of a new version failed while writing the blob, and the key
\* still points at the version of the earlier run
FailedRefreshKeepsEntryWitness ==
    \E k \in Targets :
        /\ outcome[k] = "raised"
        /\ statuses[k] = status_on_raise("OSError")
        /\ blobs[<<k, "v2">>] = Truncated
        /\ k \in DOMAIN Pointer
        /\ Pointer[k] = "v1"

\* the step is one of caller c's call
StepOf(c) == pc[c] # "idle" /\ pc'[c] # pc[c]

\* C26 as stated: inside upload_state_from_path the directory is there
\* before the blob write and the blob before the pointer read; and a reader
\* that sees key's pointer entry at version v does not get not-found when it
\* downloads (key, v).
PublishedIsDownloadable ==
    [][\A c \in Callers :
        /\ (pc[c] = "ul_write" /\ StepOf(c))
           => Parent(_get_state_path(key[c], ver[c])) \in dirs
        /\ (op[c] = "upload" /\ pc[c] = "slv_read" /\ StepOf(c))
           => blobs[_get_state_path(key[c], ver[c])] # NoFile
        /\ ( /\ pc[c] = "dl_exists" /\ StepOf(c)
             /\ key[c] \in DOMAIN Pointer
             /\ Pointer[key[c]] = ver[c] )
           => result'[c] # "ValueError"]_vars

\* C26 amended: the same, for a pointer entry that was not passed to
\* set_latest_version directly.
UploadedIsDownloadable ==
    [][\A c \in Callers :
        /\ (pc[c] = "ul_write" /\ StepOf(c))
           => Parent(_get_state_path(key[c], ver[c])) \in dirs
        /\ (op[c] = "upload" /\ pc[c] = "slv_read" /\ StepOf(c))
           => blobs[_get_state_path(key[c], ver[c])] # NoFile
        /\ ( /\ pc[c] = "dl_exists" /\ StepOf(c)
             /\ key[c] \in DOMAIN Pointer
             /\ Pointer[key[c]] = ver[c]
             /\ <<key[c], ver[c]>> \notin direct )
           => result'[c] # "ValueError"]_vars

\* a reader has downloaded the version another caller's upload published
UploadedIsDownloadableWitness ==
    \E c, d \in Callers :
        /\ op[c] = "download" /\ result[c] = "ok"
        /\ op[d] = "upload" /\ result[d] = "ok"
        /\ key[c] = key[d] /\ ver[c] = ver[d]
        /\ Pointer[key[c]] = ver[c]
        /\ direct = {}

Yields(bl, k, v) == bl[_get_state_path(k, v)]

\* C29 as stated: for all key and version strings, a step of
\* upload_state_from_path(key, v, path) leaves what a download of any other
\* pair (key2, v2) yields, and the pointer entry of any other key, as it was.
FrameOfUpload ==
    [][\A c \in Callers :
        (op[c] = "upload" /\ StepOf(c))
        => /\ \A k2 \in SlashKeys, v2 \in SlashVersions :
                 <<k2, v2>> # <<key[c], ver[c]>>
                 => Yields(blobs', k2, v2) = Yields(blobs, k2, v2)
           /\ \A k2 \in (DOMAIN Pointer) \ {key[c]} :
                 k2 \in DOMAIN Pointer' /\ Pointer'[k2] = Pointer[k2]]_vars

\* C30: reads leave the store unchanged.  No step of a download (ending
\* well or not) or of get_latest_defs_state_info changes a blob or the
\* cursor values, and no step of set_latest_version changes a blob.
ReadsLeaveStore ==
    [][\A c \in Callers :
        /\ (op[c] \in {"download", "get_latest"} /\ StepOf(c))
           => blobs' = blobs /\ cursor' = cursor
        /\ (op[c] = "set_latest" /\ StepOf(c))
           => blobs' = blobs]_vars

\* a download has ended well and a read has returned the record, and the
\* store holds what was uploaded and published before
ReadsLeaveStoreWitness ==
    \E c, d \in Callers :
        /\ op[c] = "download" /\ result[c] = "ok"
        /\ op[d] = "upload" /\ result[d] = "ok"
        /\ blobs = lastSrc
        /\ DOMAIN Pointer = {key[d]}
        /\ file[c] = blobs[<<key[c], ver[c]>>]


\* C31: within one run a task is suspended only inside its awaited refresh.
\* From the moment the loop resumes a task until its coroutine ends, every
\* step is that task's: no other task of the run starts, moves or ends
\* between the read and the write-back of its set_latest_version call, or
\* between its status assignment and its display refresh; so no write-back
\* is made from a record another task has replaced since it was read.
InTask(c) == task[component_of(c)] \in {"resumed", "status_set"}

NoSuspensionInsideTask ==
    [][\A c \in Callers :
          /\ InTask(c) =>
                \A d \in Callers \ {c} :
                    /\ pc'[d] = pc[d]
                    /\ result'[d] = result[d]
                    /\ task'[component_of(d)] = task[component_of(d)]
                    /\ (cursor' # cursor => pc[c] = "slv_write")
                    /\ (statuses' # statuses \/ displays' # displays =>
                          pc[c] = "idle")
          /\ (InTask(c) /\ InTask(c)' => running' = c)
          /\ ~stale'[c]]_vars

\* a task is between the read and the write-back of set_latest_version while
\* the other task of the run still waits in its refresh, and the task whose
\* status is assigned and not yet displayed has the loop
NoSuspensionInsideTaskWitness ==
    \E c \in Callers, d \in Callers :
        /\ c # d
        /\ pc[c] = "slv_write"
        /\ running = c
        /\ task[component_of(d)] = "awaiting"

\* C32: when the command has failed, the error it failed with is the error of
\* the first failed component in the order the components were enumerated
\* (the order of the status map), whatever the order in which the tasks
\* ended; and the command ends with "Done!" only when no component failed.
FailedPositions == {i \in 1..Len(to_refresh) : statuses[to_refresh[i]].status = "error"}

FirstEnumeratedError ==
    /\ phase = "failed" =>
          /\ FailedPositions # {}
          /\ \E i \in FailedPositions :
                /\ \A j \in FailedPositions : i <= j
                /\ exit = statuses[to_refresh[i]].error
    /\ phase = "done" => FailedPositions = {} /\ exit = "zero"

\* two components failed with different errors and the command failed with
\* the error of the one enumerated first
FirstEnumeratedErrorWitness ==
    /\ phase = "failed"
    /\ \E i \in FailedPositions, j \in FailedPositions :
          /\ i < j
          /\ \A h \in 1..(i - 1) : statuses[to_refresh[h]].status = "success"
          /\ i > 1
          /\ statuses[to_refresh[i]].error # statuses[to_refresh[j]].error
          /\ exit = statuses[to_refresh[i]].error

\* C33: from the creation of the status map to the end of the run its key
\* set stays the set of state keys of the targeted components (a task's
\* assignment overwrites an entry, none is added or removed), and every
\* rendering after the initial one moves up and clears exactly as many lines
\* as the rendering before it printed.
StatusKeysConstant ==
    [][/\ phase' # "idle" => DOMAIN statuses' = Range(to_refresh')
       /\ phase # "idle" => DOMAIN statuses' = DOMAIN statuses /\ to_refresh' = to_refresh
       /\ displays' = displays + 1 => screen'.cleared = screen.printed]_vars

\* a run of at least two components after two of them were redisplayed, one
\* as an error: the last rendering cleared the header and every status line
StatusKeysConstantWitness ==
    /\ Cardinality(DOMAIN statuses) >= 2
    /\ displays >= 2
    /\ screen.cleared = Cardinality(DOMAIN statuses) + 1
    /\ screen.printed = screen.cleared
    /\ \E k \in DOMAIN statuses : statuses[k].status = "error"
    /\ \E k \in DOMAIN statuses : statuses[k].status = "success"

\* C34: the whole pointer record is stored under the one cursor key INFO_KEY.
\* No step of any facade operation changes the value of another cursor key
\* or the set of cursor keys: the write of set_latest_version replaces the
\* value under INFO_KEY and nothing else; and what get_latest_defs_state_info
\* returns or raises is the same whatever the other cursor key holds.
OtherCursorValues == {NoValue, OtherValue, Undecodable}

OnlyInfoKey ==
    [][/\ DOMAIN cursor' = DOMAIN cursor
       /\ cursor'[OTHER_KEY] = cursor[OTHER_KEY]
       /\ \A c \in Callers :
             pc[c] = "slv_write" /\ pc'[c] # "slv_write" /\ wrotePtr'[c] =>
                cursor' = set_cursor_values(cursor, INFO_KEY, cursor'[INFO_KEY])
       /\ \A c \in Callers, other \in OtherCursorValues :
             LET elsewhere == set_cursor_values(cursor, OTHER_KEY, other) IN
             pc[c] = "get" /\ pc'[c] # "get" /\ result'[c] # "StorageError" =>
                /\ result'[c] = "DeserializationError" <=> get_latest_raises(elsewhere)
                /\ result'[c] = "None" <=>
                      ~get_latest_raises(elsewhere)
                      /\ ~get_latest_defs_state_info(elsewhere).present
                /\ result'[c] = "ok" =>
                      upd'[c] = get_latest_defs_state_info(elsewhere).info_mapping]_vars

\* a set_latest_version wrote the record, the other cursor value is as it
\* was, and a get_latest_defs_state_info returned the record
OnlyInfoKeyWitness ==
    /\ cursor[INFO_KEY] # NoValue
    /\ cursor[OTHER_KEY] = OtherValue
    /\ \E c \in Callers, d \in Callers :
          /\ wrotePtr[d]
          /\ op[c] = "get_latest"
          /\ result[c] = "ok"
          /\ upd[c] = deserialize_value(cursor[INFO_KEY])
====
